---- MODULE Spec2Model ----
(***************************************************************************)
(* A model of check-packages.js: the watch-list specifier parser, the      *)
(* manifest / lockfile collector, the version comparator and the run of    *)
(* main().                                                                 *)
(*                                                                         *)
(* JavaScript strings are sequences of one-character strings, so that      *)
(* trimming, splitting, prefix tests and regular-expression stripping are  *)
(* computed on the characters.  Every other JavaScript value (null, a       *)
(* boolean, a number, an array, an object, a function) is a sequence that   *)
(* starts with a tag, which is no character.                                *)
(***************************************************************************)
EXTENDS Integers, Sequences, FiniteSets, TLC

VARIABLES
    pc,               \* position of the run / of the function under check
    content,          \* parser: the text handed to parsePackageLine / the watch-list file text
    entry,            \* parser: result of parsePackageLine(content)
    packageList,      \* result of loadPackageList
    cmpIn,            \* comparator: the two arguments and the versions they were rendered from
    cmpOut,           \* comparator: what isVersionLowerOrEqual returned, printed or threw
    env,              \* main: the file system and arguments of the run
    projectPackages,  \* main: ResolvedPackageMap returned by loadProjectPackages
    results,          \* main: the records pushed by the join loop
    report,           \* main: the lines written to the output file, Null when none was written
    exitCode,         \* main: status of process.exit, 0 when main returns normally
    console,          \* main: what was printed, in order, as message tags
    steps,            \* main: the I/O steps performed, in order
    writeLog          \* main: the assignments made to the ResolvedPackageMap, in order

parserVars == <<content, entry>>
cmpVars == <<cmpIn, cmpOut>>
runVars == <<env, projectPackages, results, report, exitCode, console, steps, writeLog>>

vars == <<pc, packageList, parserVars, cmpVars, runVars>>


----------------------------------------------------------------------------
(* Strings *)

Null == <<"null">>

Max(S) == CHOOSE m \in S : \A n \in S : n <= m
Min(S) == CHOOSE m \in S : \A n \in S : m <= n

\* All strings over alphabet A of length at most n.
StringsUpTo(A, n) == UNION {[1..k -> A] : k \in 0..n}

\* String.prototype.startsWith
StartsWith(s, p) == Len(s) >= Len(p) /\ SubSeq(s, 1, Len(p)) = p

\* String.prototype.indexOf(p, from), 0-based, -1 when absent
MinOrMinusOne(hits) == IF hits = {} THEN -1 ELSE Min(hits)
MaxOrMinusOne(hits) == IF hits = {} THEN -1 ELSE Max(hits)

IndexOfFrom(s, p, from) ==
    MinOrMinusOne({i \in from..(Len(s) - Len(p)) : SubSeq(s, i + 1, i + Len(p)) = p})

IndexOf(s, p) == IndexOfFrom(s, p, 0)

\* String.prototype.includes
Includes(s, p) == IndexOf(s, p) # -1

\* String.prototype.lastIndexOf(c) for a one-character c, 0-based, -1 when absent
LastIndexOf(s, c) == MaxOrMinusOne({i \in 0..(Len(s) - 1) : s[i + 1] = c})

\* String.prototype.substring(a, b) and substring(a)
Substring(s, a, b) == SubSeq(s, a + 1, b)
SubstringFrom(s, a) == SubSeq(s, a + 1, Len(s))

\* The code points String.prototype.trim strips: WhiteSpace (TAB, VT, FF, SP,
\* NBSP, ZWNBSP and the space separators) and LineTerminator (LF, CR, LS, PS).
\* A code point that has no escape in a string here is the token "U+xxxx".
WhiteSpace ==
    {"\t", "U+000B", "\f", " ", "U+00A0", "U+FEFF", "U+1680", "U+2000", "U+2001",
     "U+2002", "U+2003", "U+2004", "U+2005", "U+2006", "U+2007", "U+2008", "U+2009",
     "U+200A", "U+202F", "U+205F", "U+3000"}

LineTerminator == {"\n", "\r", "U+2028", "U+2029"}

IsWhiteSpace(c) == c \in WhiteSpace \cup LineTerminator

\* String.prototype.trim
Between(s, keep) == IF keep = {} THEN <<>> ELSE SubSeq(s, Min(keep), Max(keep))

Trim(s) == Between(s, {i \in 1..Len(s) : ~IsWhiteSpace(s[i])})

\* String.prototype.split(c) for a one-character separator c
RECURSIVE Split(_, _)
RECURSIVE SplitAt(_, _, _)
SplitAt(s, c, i) ==
    IF i = -1 THEN <<s>>
    ELSE <<Substring(s, 0, i)>> \o Split(SubstringFrom(s, i + 1), c)

Split(s, c) == SplitAt(s, c, IndexOf(s, <<c>>))

\* String.prototype.replace(p, "") for a string pattern p: the first occurrence only
RemoveAt(s, p, i) ==
    IF i = -1 THEN s ELSE Substring(s, 0, i) \o SubstringFrom(s, i + Len(p))

ReplaceFirst(s, p) == RemoveAt(s, p, IndexOf(s, p))

\* Array.prototype.join(c)
RECURSIVE Join(_, _)
Join(parts, c) ==
    IF parts = <<>> THEN <<>>
    ELSE IF Len(parts) = 1 THEN parts[1]
    ELSE parts[1] \o <<c>> \o Join(Tail(parts), c)

DigitChars == <<"0", "1", "2", "3", "4", "5", "6", "7", "8", "9">>

\* String(n) for a natural number
RECURSIVE NumberStringOf(_)
NumberStringOf(n) ==
    IF n < 10 THEN <<DigitChars[n + 1]>>
    ELSE NumberStringOf(n \div 10) \o <<DigitChars[(n % 10) + 1]>>

----------------------------------------------------------------------------
(* JavaScript values, as JSON.parse and the property lookups produce them *)

\* The first element of every value that is no string.  Null stands for null
\* and for undefined.
ValueTags == {"null", "boolean", "number", "array", "object", "function", "Object.prototype"}

Boolean(b) == <<"boolean", b>>

\* The number that String() prints as text
Number(text) == <<"number", text>>

Array(elements) == <<"array", elements>>

\* One own property of an object
Property(name, value) == [name |-> name, value |-> value]

\* An object literal of a JSON text: its own properties in property order.  Its
\* prototype is Object.prototype; a key __proto__ is an own property of it.
PlainObject(properties) == <<"object", properties>>

\* A built-in method
NativeFunction(name) == <<"function", name>>

\* The object Object.prototype
ObjectPrototype == <<"Object.prototype">>

TypeOf(v) ==
    IF v = <<>> THEN "string" ELSE IF v[1] \in ValueTags THEN v[1] ELSE "string"

IsString(v) == TypeOf(v) = "string"

\* ToBoolean: null / undefined, the empty string, false and 0 are falsy.
Truthy(v) ==
    CASE TypeOf(v) = "null" -> FALSE
      [] TypeOf(v) = "string" -> v # <<>>
      [] TypeOf(v) = "boolean" -> v[2]
      [] TypeOf(v) = "number" -> v[2] # <<"0">>
      [] OTHER -> TRUE

\* Object.entries(v) of a value that is not null: the own enumerable properties
\* in order.  An array and a string have their indices, a number and a boolean
\* have none.
Entries(v) ==
    CASE TypeOf(v) = "object" -> v[2]
      [] TypeOf(v) = "array" ->
            [i \in 1..Len(v[2]) |-> Property(NumberStringOf(i - 1), v[2][i])]
      [] TypeOf(v) = "string" ->
            [i \in 1..Len(v) |-> Property(NumberStringOf(i - 1), <<v[i]>>)]
      [] OTHER -> <<>>

LengthName == <<"l", "e", "n", "g", "t", "h">>

\* The own properties of an object or an array
HasOwnProperty(v, name) ==
    CASE TypeOf(v) = "object" -> \E i \in 1..Len(v[2]) : v[2][i].name = name
      [] TypeOf(v) = "array" ->
            name = LengthName \/ \E i \in 1..Len(v[2]) : NumberStringOf(i - 1) = name
      [] OTHER -> FALSE

OwnProperty(v, name) ==
    IF TypeOf(v) = "object"
    THEN v[2][CHOOSE i \in 1..Len(v[2]) : v[2][i].name = name].value
    ELSE IF name = LengthName THEN Number(NumberStringOf(Len(v[2])))
    ELSE v[2][CHOOSE i \in 1..Len(v[2]) : NumberStringOf(i - 1) = name]

\* v.name for a value v that is not null and one of the names the program reads
\* with a dot or from depTypes (version, dependencies, packages, devDependencies,
\* peerDependencies): the own property of an object, undefined otherwise, since
\* no prototype has a property of these names.
Field(v, name) ==
    IF TypeOf(v) = "object" /\ HasOwnProperty(v, name) THEN OwnProperty(v, name)
    ELSE Null

ToStringName == <<"t", "o", "S", "t", "r", "i", "n", "g">>

\* Whether `${v}` converts v to a string without a TypeError.  An object of a
\* JSON text that has a key toString has a value there that cannot be called,
\* and valueOf gives no primitive either; an array joins its elements.
RECURSIVE CanConvertToString(_)
CanConvertToString(v) ==
    CASE TypeOf(v) = "object" -> ~HasOwnProperty(v, ToStringName)
      [] TypeOf(v) = "array" -> \A i \in 1..Len(v[2]) : CanConvertToString(v[2][i])
      [] OTHER -> TRUE

ObjectObject == <<"[", "o", "b", "j", "e", "c", "t", " ", "O", "b", "j", "e", "c", "t", "]">>

\* String(v) where it does not throw
RECURSIVE StringOf(_)
ElementString(v) == IF v = Null THEN <<>> ELSE StringOf(v)

StringOf(v) ==
    CASE TypeOf(v) = "string" -> v
      [] TypeOf(v) = "null" -> <<"n", "u", "l", "l">>
      [] TypeOf(v) = "boolean" -> IF v[2] THEN <<"t", "r", "u", "e">> ELSE <<"f", "a", "l", "s", "e">>
      [] TypeOf(v) = "number" -> v[2]
      [] TypeOf(v) = "array" -> Join([i \in 1..Len(v[2]) |-> ElementString(v[2][i])], ",")
      [] TypeOf(v) = "function" ->
            <<"f", "u", "n", "c", "t", "i", "o", "n", " ">> \o v[2] \o <<"(", ")", " ", "{", " ", "[", "n", "a", "t", "i", "v", "e", " ", "c", "o", "d", "e", "]", " ", "}">>
      [] OTHER -> ObjectObject

----------------------------------------------------------------------------
(* Specifier parser *)

\* { packageName, version } as parsePackageLine returns it; version Null when absent
Entry(name, version) == [packageName |-> name, version |-> version]

\* parsePackageLine returning null
NullEntry == Entry(Null, Null)

\* Lines 18-27, on the segments of line.split('@')
ParseScoped(line, parts) ==
    IF Len(parts) = 2 THEN Entry(line, Null)
    ELSE IF Len(parts) = 3 THEN Entry(<<"@">> \o parts[2], parts[3])
    ELSE NullEntry

\* Lines 30-39, on the index of an "@" of the line (-1 when there is none)
ParseUnscoped(line, atIndex) ==
    IF atIndex = -1 THEN Entry(line, Null)
    ELSE Entry(Substring(line, 0, atIndex), SubstringFrom(line, atIndex + 1))

ParseTrimmedDropsScope(line) ==
    IF line = <<>> THEN NullEntry
    ELSE ParseUnscoped(line, LastIndexOf(line, "@"))

ParseTrimmedFirstAt(line) ==
    IF line = <<>> THEN NullEntry
    ELSE IF StartsWith(line, <<"@">>) THEN ParseScoped(line, Split(line, "@"))
    ELSE ParseUnscoped(line, IndexOf(line, <<"@">>))

\* Lines 14-42, on the trimmed line
ParseTrimmed(line) ==
    IF line = <<>> THEN NullEntry
    ELSE IF StartsWith(line, <<"@">>) THEN ParseScoped(line, Split(line, "@"))
    ELSE ParseUnscoped(line, LastIndexOf(line, "@"))

parsePackageLineDropsScope(line) == ParseTrimmedDropsScope(Trim(line))

parsePackageLineFirstAt(line) == ParseTrimmedFirstAt(Trim(line))

parsePackageLine(line) == ParseTrimmed(Trim(line))

\* The forEach of loadPackageList: push every line that parses.
PushIfParsed(packages, parsed) ==
    IF parsed # NullEntry THEN Append(packages, parsed) ELSE packages

RECURSIVE PushParsed(_, _)
PushParsed(lines, packages) ==
    IF lines = <<>> THEN packages
    ELSE PushParsed(Tail(lines), PushIfParsed(packages, parsePackageLine(Head(lines))))

\* loadPackageList on the text of an existing file
loadPackageList(text) == PushParsed(Split(text, "\n"), <<>>)


----------------------------------------------------------------------------
(* The semver package, as check-packages.js calls it: clean and lte *)

UpperChars == <<"A", "B", "C", "D", "E", "F", "G", "H", "I", "J", "K", "L", "M",
                "N", "O", "P", "Q", "R", "S", "T", "U", "V", "W", "X", "Y", "Z">>

LowerChars == <<"a", "b", "c", "d", "e", "f", "g", "h", "i", "j", "k", "l", "m",
                "n", "o", "p", "q", "r", "s", "t", "u", "v", "w", "x", "y", "z">>

\* The characters of identifiers in code-unit order: "-" < digits < upper < lower.
IdentChars == <<"-">> \o DigitChars \o UpperChars \o LowerChars

Range(f) == {f[i] : i \in DOMAIN f}

IsDigit(c) == c \in Range(DigitChars)
IsIdentChar(c) == c \in Range(IdentChars)

CharCode(c) == CHOOSE i \in 1..Len(IdentChars) : IdentChars[i] = c
DigitValue(c) == (CHOOSE i \in 1..Len(DigitChars) : DigitChars[i] = c) - 1

AllDigits(s) == s # <<>> /\ \A i \in 1..Len(s) : IsDigit(s[i])

\* NUMERICIDENTIFIER: 0|[1-9]\d*
IsNumericIdentifier(s) == AllDigits(s) /\ (Len(s) > 1 => s[1] # "0")

\* a prerelease identifier: NUMERICIDENTIFIER, or \d*[a-zA-Z-][a-zA-Z0-9-]*
IsPrereleaseIdentifier(s) ==
    /\ s # <<>>
    /\ \A i \in 1..Len(s) : IsIdentChar(s[i])
    /\ (AllDigits(s) => IsNumericIdentifier(s))

\* BUILDIDENTIFIER: [a-zA-Z0-9-]+
IsBuildIdentifier(s) == s # <<>> /\ \A i \in 1..Len(s) : IsIdentChar(s[i])

\* MAX_LENGTH: a longer text is no version
MAX_LENGTH == 256

\* Number.MAX_SAFE_INTEGER, 2^53 - 1, in decimal digits
MAX_SAFE_INTEGER == <<"9", "0", "0", "7", "1", "9", "9", "2", "5", "4", "7", "4", "0", "9", "9", "1">>

Sign(a, b) == IF a < b THEN -1 ELSE IF a > b THEN 1 ELSE 0

\* The order of two natural numbers written in decimal digits without leading
\* zeros: -1, 0 or 1
FirstDifference(a, b) == Min({i \in 1..Len(a) : a[i] # b[i]})

CompareDigits(a, b) ==
    IF Len(a) # Len(b) THEN Sign(Len(a), Len(b))
    ELSE IF a = b THEN 0
    ELSE Sign(DigitValue(a[FirstDifference(a, b)]), DigitValue(b[FirstDifference(a, b)]))

IsOdd(d) == (DigitValue(d[Len(d)]) % 2) = 1

\* d without its leading zeros, "0" for zero
StripLeadingZeros(d) ==
    IF \A i \in 1..Len(d) : d[i] = "0" THEN <<"0">>
    ELSE SubSeq(d, Min({i \in 1..Len(d) : d[i] # "0"}), Len(d))

\* floor(d / 2) and d + 1 on decimal digits
Halve(d) ==
    StripLeadingZeros(
        [i \in 1..Len(d) |->
            DigitChars[(((IF i > 1 /\ (DigitValue(d[i - 1]) % 2) = 1 THEN 10 ELSE 0)
                           + DigitValue(d[i])) \div 2) + 1]])

LastBelowNine(d) == MaxOrMinusOne({i \in 1..Len(d) : d[i] # "9"})

Increment(d) ==
    IF LastBelowNine(d) = -1 THEN <<"1">> \o [i \in 1..Len(d) |-> "0"]
    ELSE [i \in 1..Len(d) |->
             IF i < LastBelowNine(d) THEN d[i]
             ELSE IF i = LastBelowNine(d) THEN DigitChars[DigitValue(d[i]) + 2]
             ELSE "0"]

\* 2^16, 2^15 and 10^j modulo 2^16
TwoTo16 == 65536
TwoTo15 == 32768

RECURSIVE TenToThe(_)
TenToThe(j) == IF j = 0 THEN 1 ELSE (10 * TenToThe(j - 1)) % TwoTo16

\* The number written by d[1..i] modulo 2^16: its last 16 digits decide, 10^16
\* being a multiple of 2^16.  j counts the digits taken from the end.
RECURSIVE ModFrom(_, _, _)
ModFrom(d, i, j) ==
    IF j = 16 \/ i - j < 1 THEN 0
    ELSE ((DigitValue(d[i - j]) * TenToThe(j)) + ModFrom(d, i, j + 1)) % TwoTo16

PrefixMod(d, i) == ModFrom(d, i, 0)

\* floor(d / 2^16) by long division: the remainder carried into digit i is the
\* prefix before it modulo 2^16
Halve16(d) ==
    StripLeadingZeros(
        [i \in 1..Len(d) |->
            DigitChars[(((10 * PrefixMod(d, i - 1)) + DigitValue(d[i])) \div TwoTo16) + 1]])

TwoTo52 == <<"4", "5", "0", "3", "5", "9", "9", "6", "2", "7", "3", "7", "0", "4", "9", "6">>
TwoTo53 == <<"9", "0", "0", "7", "1", "9", "9", "2", "5", "4", "7", "4", "0", "9", "9", "2">>
TwoTo69 == <<"5", "9", "0", "2", "9", "5", "8", "1", "0", "3", "5", "8", "7", "0", "5", "6", "5", "1", "7", "1", "2">>

\* A double that is a natural number: mantissa * 2^exponent, the mantissa in
\* decimal digits.  The exponent is 0 for a number up to MAX_SAFE_INTEGER; above,
\* the mantissa has 53 bits.
Float(mantissa, exponent) == [mantissa |-> mantissa, exponent |-> exponent]

Normalized(mantissa, exponent) ==
    IF exponent > 0 /\ mantissa = TwoTo53 THEN Float(TwoTo52, exponent + 1)
    ELSE Float(mantissa, exponent)

\* The double nearest to d * 2^exponent, ties to even.  d is divided by two, 16
\* times at once while that leaves more than 53 bits, until it has 53 bits;
\* guard is the last bit dropped and sticky tells whether a bit dropped before
\* it was set.
RECURSIVE RoundToDouble(_, _, _, _)
RoundToDouble(d, exponent, guard, sticky) ==
    IF CompareDigits(d, TwoTo69) >= 0
    THEN RoundToDouble(Halve16(d), exponent + 16, PrefixMod(d, Len(d)) >= TwoTo15,
                       sticky \/ guard \/ (PrefixMod(d, Len(d)) % TwoTo15) # 0)
    ELSE IF CompareDigits(d, MAX_SAFE_INTEGER) > 0
    THEN RoundToDouble(Halve(d), exponent + 1, IsOdd(d), sticky \/ guard)
    ELSE Normalized(IF guard /\ (sticky \/ IsOdd(d)) THEN Increment(d) ELSE d, exponent)

\* Unary plus on a string of digits
ToNumber(s) == RoundToDouble(s, 0, FALSE, FALSE)

\* The order of two such numbers: -1, 0 or 1
CompareNumbers(a, b) ==
    IF a.exponent # b.exponent THEN Sign(a.exponent, b.exponent)
    ELSE CompareDigits(a.mantissa, b.mantissa)

\* parse() returning null
NoSemVer ==
    [valid |-> FALSE, major |-> <<>>, minor |-> <<>>, patch |-> <<>>, prerelease |-> <<>>]

\* The match of MAJOR.MINOR.PATCH, the prerelease and the build identifiers.
\* The constructor throws when a part of the main version is above
\* MAX_SAFE_INTEGER.  A number is kept by its digits; a prerelease identifier of
\* digits is a number below MAX_SAFE_INTEGER and a string from there on, and
\* both print and compare by the same digits.
MatchParts(main, pre, build) ==
    IF /\ Len(main) = 3
       /\ \A i \in 1..Len(main) :
             /\ IsNumericIdentifier(main[i])
             /\ CompareDigits(main[i], MAX_SAFE_INTEGER) <= 0
       /\ \A i \in 1..Len(pre) : IsPrereleaseIdentifier(pre[i])
       /\ \A i \in 1..Len(build) : IsBuildIdentifier(build[i])
    THEN [valid |-> TRUE, major |-> main[1], minor |-> main[2], patch |-> main[3],
          prerelease |-> pre]
    ELSE NoSemVer

\* The text before the build: the main version up to the first "-" (at index
\* dash), the prerelease after it
MatchAtDash(text, dash, build) ==
    MatchParts(Split(IF dash = -1 THEN text ELSE Substring(text, 0, dash), "."),
               IF dash = -1 THEN <<>> ELSE Split(SubstringFrom(text, dash + 1), "."),
               build)

MatchBeforeBuild(text, build) == MatchAtDash(text, IndexOf(text, <<"-">>), build)

\* The text after the optional "v": the build follows the first "+" (at index plus)
MatchAtPlus(body, plus) ==
    MatchBeforeBuild(IF plus = -1 THEN body ELSE Substring(body, 0, plus),
                     IF plus = -1 THEN <<>> ELSE Split(SubstringFrom(body, plus + 1), "."))

MatchBody(body) == MatchAtPlus(body, IndexOf(body, <<"+">>))

\* The optional leading "v" of the pattern
MatchFull(t) == MatchBody(IF StartsWith(t, <<"v">>) THEN SubstringFrom(t, 1) ELSE t)

\* parse(version) in strict mode: null for a text of more than MAX_LENGTH
\* characters; else the fields of the match of
\* ^v?MAJOR.MINOR.PATCH(-PRERELEASE)?(+BUILD)?$ on the trimmed text, NoSemVer
\* when the text does not match (the constructor's TypeError becomes null).
semverParse(version) ==
    IF Len(version) > MAX_LENGTH THEN NoSemVer ELSE MatchFull(Trim(version))

\* SemVer.format(): major.minor.patch, then "-" and the prerelease joined by "."
semverFormat(v) ==
    v.major \o <<".">> \o v.minor \o <<".">> \o v.patch
        \o (IF v.prerelease = <<>> THEN <<>> ELSE <<"-">> \o Join(v.prerelease, "."))

\* version.replace(/^[=v]+/, '')
RECURSIVE StripEqualsV(_)
StripEqualsV(s) ==
    IF s # <<>> /\ s[1] \in {"=", "v"} THEN StripEqualsV(Tail(s)) ELSE s

\* semver.clean(version) on a string: the formatted version, or null
FormatIfValid(v) == IF v.valid THEN semverFormat(v) ELSE Null

semverClean(version) == FormatIfValid(semverParse(StripEqualsV(Trim(version))))

\* a < b on strings: by code units, a proper prefix first
RECURSIVE StringLess(_, _)
StringLess(a, b) ==
    IF b = <<>> THEN FALSE
    ELSE IF a = <<>> THEN TRUE
    ELSE IF a[1] # b[1] THEN CharCode(a[1]) < CharCode(b[1])
    ELSE StringLess(Tail(a), Tail(b))

\* compareIdentifiers(a, b): two identifiers of digits as numbers (unary plus on
\* each), one of digits before any other, two others as strings
compareIdentifiers(a, b) ==
    IF AllDigits(a) /\ AllDigits(b) THEN CompareNumbers(ToNumber(a), ToNumber(b))
    ELSE IF AllDigits(a) THEN -1
    ELSE IF AllDigits(b) THEN 1
    ELSE IF a = b THEN 0
    ELSE IF StringLess(a, b) THEN -1 ELSE 1

\* SemVer.comparePre from index i on: the first pair of identifiers that are not
\* identical decides
RECURSIVE comparePreFrom(_, _, _)
comparePreFrom(p, q, i) ==
    IF i > Len(p) /\ i > Len(q) THEN 0
    ELSE IF i > Len(q) THEN 1
    ELSE IF i > Len(p) THEN -1
    ELSE IF p[i] = q[i] THEN comparePreFrom(p, q, i + 1)
    ELSE compareIdentifiers(p[i], q[i])

\* SemVer.comparePre: a release is above any of its prereleases
comparePre(a, b) ==
    IF a.prerelease # <<>> /\ b.prerelease = <<>> THEN -1
    ELSE IF a.prerelease = <<>> /\ b.prerelease # <<>> THEN 1
    ELSE IF a.prerelease = <<>> /\ b.prerelease = <<>> THEN 0
    ELSE comparePreFrom(a.prerelease, b.prerelease, 1)

\* SemVer.compareMain
compareMain(a, b) ==
    IF a.major # b.major THEN compareIdentifiers(a.major, b.major)
    ELSE IF a.minor # b.minor THEN compareIdentifiers(a.minor, b.minor)
    ELSE compareIdentifiers(a.patch, b.patch)

\* SemVer.compare
MainThenPre(main, a, b) == IF main # 0 THEN main ELSE comparePre(a, b)

semverCompare(a, b) == MainThenPre(compareMain(a, b), a, b)

\* semver.lte(a, b) on two strings: new SemVer throws when one is no version
LteParsed(va, vb) ==
    IF va.valid /\ vb.valid
    THEN [threw |-> FALSE, value |-> semverCompare(va, vb) <= 0]
    ELSE [threw |-> TRUE, value |-> FALSE]

semverLte(a, b) == LteParsed(semverParse(a), semverParse(b))

----------------------------------------------------------------------------
(* Version comparator *)

\* What isVersionLowerOrEqual returns, whether it printed its warning, and
\* whether it threw.
Compared(result, warned, threw) == [result |-> result, warned |-> warned, threw |-> threw]

\* Lines 174-177: the template literal of console.warn converts both arguments
\* to strings, which can throw out of the catch block
WarnAndReturnFalse(installedVersion, requiredVersion) ==
    IF CanConvertToString(installedVersion) /\ CanConvertToString(requiredVersion)
    THEN Compared(FALSE, TRUE, FALSE)
    ELSE Compared(FALSE, FALSE, TRUE)

\* Line 173 inside the try block: a throw of semver.lte is caught at line 174
LteOrWarn(lte, installedVersion, requiredVersion) ==
    IF lte.threw THEN WarnAndReturnFalse(installedVersion, requiredVersion)
    ELSE Compared(lte.value, FALSE, FALSE)

\* Lines 169-173
CompareCleaned(cleanInstalledVersion, cleanRequiredVersion, installedVersion, requiredVersion) ==
    IF cleanInstalledVersion = Null \/ cleanRequiredVersion = Null
    THEN Compared(FALSE, FALSE, FALSE)
    ELSE LteOrWarn(semverLte(cleanInstalledVersion, cleanRequiredVersion),
                   installedVersion, requiredVersion)

isVersionLowerOrEqual(installedVersion, requiredVersion) ==
    IF ~Truthy(requiredVersion) THEN Compared(FALSE, FALSE, FALSE)
    \* semver.clean calls version.trim(): a TypeError on a non-string, caught at line 174
    ELSE IF ~IsString(installedVersion) \/ ~IsString(requiredVersion)
    THEN WarnAndReturnFalse(installedVersion, requiredVersion)
    ELSE CompareCleaned(semverClean(installedVersion), semverClean(requiredVersion),
                        installedVersion, requiredVersion)

----------------------------------------------------------------------------
(* ResolvedPackageMap: a plain JavaScript object keyed by package name *)

\* The map: its own properties and its prototype.  The prototype is
\* Object.prototype at first; an assignment to __proto__ can make it null, or
\* an object or array of the manifest.
Object(own, proto) == [own |-> own, proto |-> proto]

\* {}
EmptyMap == Object([n \in {} |-> <<>>], ObjectPrototype)

Proto == <<"_", "_", "p", "r", "o", "t", "o", "_", "_">>

ConstructorName == <<"c", "o", "n", "s", "t", "r", "u", "c", "t", "o", "r">>

\* The methods of Object.prototype, and its accessor __proto__
ObjectPrototypeNames ==
    {ConstructorName,
     <<"_", "_", "d", "e", "f", "i", "n", "e", "G", "e", "t", "t", "e", "r", "_", "_">>,
     <<"_", "_", "d", "e", "f", "i", "n", "e", "S", "e", "t", "t", "e", "r", "_", "_">>,
     <<"h", "a", "s", "O", "w", "n", "P", "r", "o", "p", "e", "r", "t", "y">>,
     <<"_", "_", "l", "o", "o", "k", "u", "p", "G", "e", "t", "t", "e", "r", "_", "_">>,
     <<"_", "_", "l", "o", "o", "k", "u", "p", "S", "e", "t", "t", "e", "r", "_", "_">>,
     <<"i", "s", "P", "r", "o", "t", "o", "t", "y", "p", "e", "O", "f">>,
     <<"p", "r", "o", "p", "e", "r", "t", "y", "I", "s", "E", "n", "u", "m", "e", "r", "a", "b", "l", "e">>,
     ToStringName,
     <<"v", "a", "l", "u", "e", "O", "f">>,
     Proto,
     <<"t", "o", "L", "o", "c", "a", "l", "e", "S", "t", "r", "i", "n", "g">>}

\* The methods of Array.prototype
ArrayPrototypeNames ==
    {ConstructorName, ToStringName, <<"t", "o", "L", "o", "c", "a", "l", "e", "S", "t", "r", "i", "n", "g">>,
     <<"a", "t">>, <<"c", "o", "n", "c", "a", "t">>, <<"c", "o", "p", "y", "W", "i", "t", "h", "i", "n">>, <<"f", "i", "l", "l">>,
     <<"f", "i", "n", "d">>, <<"f", "i", "n", "d", "I", "n", "d", "e", "x">>, <<"f", "i", "n", "d", "L", "a", "s", "t">>, <<"f", "i", "n", "d", "L", "a", "s", "t", "I", "n", "d", "e", "x">>,
     <<"l", "a", "s", "t", "I", "n", "d", "e", "x", "O", "f">>, <<"p", "o", "p">>, <<"p", "u", "s", "h">>, <<"r", "e", "v", "e", "r", "s", "e">>,
     <<"s", "h", "i", "f", "t">>, <<"u", "n", "s", "h", "i", "f", "t">>, <<"s", "l", "i", "c", "e">>, <<"s", "o", "r", "t">>,
     <<"s", "p", "l", "i", "c", "e">>, <<"i", "n", "c", "l", "u", "d", "e", "s">>, <<"i", "n", "d", "e", "x", "O", "f">>, <<"j", "o", "i", "n">>,
     <<"k", "e", "y", "s">>, <<"e", "n", "t", "r", "i", "e", "s">>, <<"v", "a", "l", "u", "e", "s">>, <<"f", "o", "r", "E", "a", "c", "h">>,
     <<"f", "i", "l", "t", "e", "r">>, <<"f", "l", "a", "t">>, <<"f", "l", "a", "t", "M", "a", "p">>, <<"m", "a", "p">>,
     <<"e", "v", "e", "r", "y">>, <<"s", "o", "m", "e">>, <<"r", "e", "d", "u", "c", "e">>, <<"r", "e", "d", "u", "c", "e", "R", "i", "g", "h", "t">>,
     <<"t", "o", "R", "e", "v", "e", "r", "s", "e", "d">>, <<"t", "o", "S", "o", "r", "t", "e", "d">>, <<"t", "o", "S", "p", "l", "i", "c", "e", "d">>, <<"w", "i", "t", "h">>}

\* A method found under a name: constructor is the function Object or Array
Method(name, constructor) ==
    NativeFunction(IF name = ConstructorName THEN constructor ELSE name)

\* The lookup of name arrived at Object.prototype: the getter of __proto__
\* returns the prototype of the map, the other names are methods.
FromObjectPrototype(name, proto) ==
    IF name = Proto THEN proto
    ELSE IF name \in ObjectPrototypeNames THEN Method(name, <<"O", "b", "j", "e", "c", "t">>)
    ELSE Null

\* The lookup of name in the prototype chain of the map: the prototype's own
\* properties, Array.prototype for an array, then Object.prototype.
Inherited(proto, name) ==
    IF proto = Null THEN Null
    ELSE IF proto = ObjectPrototype THEN FromObjectPrototype(name, proto)
    ELSE IF HasOwnProperty(proto, name) THEN OwnProperty(proto, name)
    ELSE IF TypeOf(proto) = "array" /\ name \in ArrayPrototypeNames
    THEN Method(name, <<"A", "r", "r", "a", "y">>)
    ELSE FromObjectPrototype(name, proto)

\* packages[name]: the own property, else the inherited one, else undefined.
Get(packages, name) ==
    IF name \in DOMAIN packages.own THEN packages.own[name]
    ELSE Inherited(packages.proto, name)

\* The map under construction, the assignments that made or changed an own
\* property so far in order, and whether an exception is propagating.
Building(packages, writes, threw) == [packages |-> packages, writes |-> writes, threw |-> threw]

Write(name, value) == [name |-> name, value |-> value]

\* The setter of Object.prototype.__proto__: a value that is neither an object
\* nor null is ignored, null and an object (an array too) become the prototype.
SetPrototype(st, value) ==
    IF TypeOf(value) \in {"null", "object", "array"}
    THEN Building(Object(st.packages.own, value), st.writes, FALSE)
    ELSE Building(st.packages, st.writes, FALSE)

DefineOwn(st, name, value) ==
    Building(Object((name :> value) @@ st.packages.own, st.packages.proto),
             Append(st.writes, Write(name, value)), FALSE)

\* The prototype chain from proto on leads to the accessor __proto__ of
\* Object.prototype: it is not null and has no data property __proto__ of its own.
ReachesProtoSetter(proto) ==
    proto # Null /\ (proto = ObjectPrototype \/ ~HasOwnProperty(proto, Proto))

\* packages[name] = value: a property of the map.  Only the key __proto__, when
\* it is no own property and the chain leads to the accessor, calls the setter
\* instead; a data property found in the chain makes an own property.
Assign(st, name, value) ==
    IF /\ name = Proto
       /\ name \notin DOMAIN st.packages.own
       /\ ReachesProtoSetter(st.packages.proto)
    THEN SetPrototype(st, value)
    ELSE DefineOwn(st, name, value)

Throw(st) == Building(st.packages, st.writes, TRUE)

----------------------------------------------------------------------------
(* Lockfile graph collector *)

VersionName == <<"v", "e", "r", "s", "i", "o", "n">>
DependenciesName == <<"d", "e", "p", "e", "n", "d", "e", "n", "c", "i", "e", "s">>
DevDependenciesName == <<"d", "e", "v", "D", "e", "p", "e", "n", "d", "e", "n", "c", "i", "e", "s">>
PeerDependenciesName == <<"p", "e", "e", "r", "D", "e", "p", "e", "n", "d", "e", "n", "c", "i", "e", "s">>
PackagesName == <<"p", "a", "c", "k", "a", "g", "e", "s">>

\* version.replace(/^[\^~>=<]+/, '')
RECURSIVE cleanVersion(_)
cleanVersion(version) ==
    IF version # <<>> /\ version[1] \in {"^", "~", ">", "=", "<"}
    THEN cleanVersion(Tail(version))
    ELSE version

\* Lines 54-58: record a truthy version, cleaned; replace on a non-string throws.
RecordVersion(st, name, version) ==
    IF ~Truthy(version) THEN st
    ELSE IF ~IsString(version) THEN Throw(st)
    ELSE Assign(st, name, cleanVersion(version))

RECURSIVE collectAllDependencies(_, _)

\* Lines 61-63 after the entry's version was handled
ThenNested(recorded, info) ==
    IF recorded.threw THEN recorded
    ELSE collectAllDependencies(Field(info, DependenciesName), recorded)

\* The forEach callback, lines 53-64, on one [name, info]: the entry's own
\* version first, then its nested dependencies.  Reading the version of null
\* throws.
VisitEntry(e, st) ==
    IF e.value = Null THEN Throw(st)
    ELSE ThenNested(RecordVersion(st, e.name, Field(e.value, VersionName)), e.value)

\* The forEach of line 53: the entries in order, until one throws.
RECURSIVE VisitEntries(_, _)
VisitEntries(entries, st) ==
    IF entries = <<>> \/ st.threw THEN st
    ELSE VisitEntries(Tail(entries), VisitEntry(Head(entries), st))

\* collectAllDependencies(dependencies, packages)
collectAllDependencies(dependencies, st) ==
    IF ~Truthy(dependencies) THEN st ELSE VisitEntries(Entries(dependencies), st)

NodeModules == <<"n", "o", "d", "e", "_", "m", "o", "d", "u", "l", "e", "s", "/">>

SlashNodeModules == <<"/">> \o NodeModules

\* Lines 108-112, on the name taken from the path
RecordPath(packageName, info, st) ==
    IF info = Null THEN Throw(st)
    ELSE IF ~Truthy(Field(info, VersionName)) THEN st
    ELSE IF Includes(packageName, SlashNodeModules) THEN st
    ELSE RecordVersion(st, packageName, Field(info, VersionName))

\* The forEach callback of lines 104-114 on one [packagePath, info].
VisitPath(e, st) ==
    IF ~StartsWith(e.name, NodeModules) THEN st
    ELSE RecordPath(ReplaceFirst(e.name, NodeModules), e.value, st)

\* Lines 103-115: the entries of packageLock.packages in order, until one throws.
RECURSIVE collectPackages(_, _)
collectPackages(entries, st) ==
    IF entries = <<>> \/ st.threw THEN st
    ELSE collectPackages(Tail(entries), VisitPath(Head(entries), st))

----------------------------------------------------------------------------
(* Manifest loader *)

\* Object.assign(packages, section): every own enumerable [name, value] of the
\* section in order, by assignment
RECURSIVE AssignEntries(_, _)
AssignEntries(st, entries) ==
    IF entries = <<>> THEN st
    ELSE AssignEntries(Assign(st, Head(entries).name, Head(entries).value), Tail(entries))

ObjectAssign(st, section) == AssignEntries(st, Entries(section))

\* Lines 86-90 for one depType
AssignSection(st, packageJson, depType) ==
    IF Truthy(Field(packageJson, depType))
    THEN ObjectAssign(st, Field(packageJson, depType))
    ELSE st

\* Lines 81-90: dependencies, devDependencies, peerDependencies, in this order.
\* Reading a property of null throws.
LoadManifest(packageJson) ==
    IF packageJson = Null THEN Throw(Building(EmptyMap, <<>>, FALSE))
    ELSE AssignSection(AssignSection(AssignSection(Building(EmptyMap, <<>>, FALSE),
            packageJson, DependenciesName), packageJson, DevDependenciesName),
            packageJson, PeerDependenciesName)

\* Lines 103-115 run only when lines 98-100 did not throw
ThenPackages(a, packageLock) ==
    IF a.threw \/ ~Truthy(Field(packageLock, PackagesName)) THEN a
    ELSE collectPackages(Entries(Field(packageLock, PackagesName)), a)

\* Lines 98-115 on the parsed lockfile
CollectLock(packageLock, st) ==
    IF packageLock = Null THEN Throw(st)
    ELSE ThenPackages(collectAllDependencies(Field(packageLock, DependenciesName), st),
                      packageLock)

\* A file that exists: whether readFileSync and JSON.parse succeed on it (a
\* directory, or a text that is no JSON, makes one of them throw), and the value
File(valid, value) == [valid |-> valid, value |-> value]

\* Lines 95-115: JSON.parse, then both sections, inside the one try block
LoadLock(lock, st) ==
    IF ~lock.valid THEN Throw(st) ELSE CollectLock(lock.value, st)


\* What loadProjectPackages did: threw (with the error's tag) or returned
\* packages; the assignments it made, what it printed and the files it read.
Loaded(threw, error, st, printed, read) ==
    [threw |-> threw, error |-> error, packages |-> st.packages, writes |-> st.writes,
     console |-> printed, steps |-> read]

LockFatal(l) ==
    IF l.threw THEN Loaded(TRUE, "load-failed", l, <<>>, <<"manifest", "lock">>)
    ELSE Loaded(FALSE, "", l, <<"lock-loaded">>, <<"manifest", "lock">>)

\* Lines 117-120: the lockfile's catch warns and the function goes on
LockLoaded(l) ==
    Loaded(FALSE, "", l, IF l.threw THEN <<"lock-warning">> ELSE <<"lock-loaded">>,
           <<"manifest", "lock">>)

WithLockFatal(project, m) ==
    IF m.threw THEN Loaded(TRUE, "load-failed", m, <<>>, <<"manifest">>)
    ELSE IF project.lockExists THEN LockFatal(LoadLock(project.lock, m))
    ELSE Loaded(FALSE, "", m, <<"lock-missing">>, <<"manifest">>)

\* Lines 93-128 with the manifest's entries in m; a throw of lines 84-90 is
\* rethrown by the catch of line 126
WithLock(project, m) ==
    IF m.threw THEN Loaded(TRUE, "load-failed", m, <<>>, <<"manifest">>)
    ELSE IF project.lockExists THEN LockLoaded(LoadLock(project.lock, m))
    ELSE Loaded(FALSE, "", m, <<"lock-missing">>, <<"manifest">>)

loadProjectPackagesLockFatal(project) ==
    IF ~project.manifestExists
    THEN Loaded(TRUE, "manifest-missing", Building(EmptyMap, <<>>, FALSE), <<>>, <<>>)
    ELSE IF ~project.manifest.valid
    THEN Loaded(TRUE, "load-failed", Building(EmptyMap, <<>>, FALSE), <<>>, <<"manifest">>)
    ELSE WithLockFatal(project, LoadManifest(project.manifest.value))

loadProjectPackages(project) ==
    IF ~project.manifestExists
    THEN Loaded(TRUE, "manifest-missing", Building(EmptyMap, <<>>, FALSE), <<>>, <<>>)
    \* JSON.parse of the manifest throws: rethrown by the catch of line 126
    ELSE IF ~project.manifest.valid
    THEN Loaded(TRUE, "load-failed", Building(EmptyMap, <<>>, FALSE), <<>>, <<"manifest">>)
    ELSE WithLock(project, LoadManifest(project.manifest.value))

----------------------------------------------------------------------------
(* Report writer and main *)

\* One element of results, lines 241-246
Match(packageName, version, requiredVersion, isLowerOrEqual) ==
    [packageName |-> packageName, version |-> version,
     requiredVersion |-> requiredVersion, isLowerOrEqual |-> isLowerOrEqual]

\* What the forEach of lines 235-250 has pushed and printed so far, and whether
\* its callback threw.
Joined(pushed, printed, threw) == [results |-> pushed, console |-> printed, threw |-> threw]

\* Lines 241-248 with the outcome c of isVersionLowerOrEqual: the push, then
\* console.log, whose template literal converts installedVersion to a string
\* and can throw.
PushMatch(listPackage, installedVersion, c, j) ==
    IF c.threw THEN Joined(j.results, j.console, TRUE)
    ELSE IF ~CanConvertToString(installedVersion)
    THEN Joined(Append(j.results, Match(listPackage.packageName, installedVersion,
                                        listPackage.version, c.result)),
                j.console \o (IF c.warned THEN <<"compare-warning">> ELSE <<>>), TRUE)
    ELSE Joined(Append(j.results, Match(listPackage.packageName, installedVersion,
                                        listPackage.version, c.result)),
                j.console \o (IF c.warned THEN <<"compare-warning">> ELSE <<>>)
                          \o <<"detected">>, FALSE)

\* Lines 238-249
JoinIfInstalled(listPackage, installedVersion, j) ==
    IF ~Truthy(installedVersion) THEN j
    ELSE PushMatch(listPackage, installedVersion,
                   isVersionLowerOrEqual(installedVersion, listPackage.version), j)

\* The callback of lines 235-250 for one watch entry
JoinEntry(listPackage, packages, j) ==
    JoinIfInstalled(listPackage, Get(packages, listPackage.packageName), j)

\* The forEach of line 235: the watch entries in order, until the callback throws
RECURSIVE JoinFrom(_, _, _)
JoinFrom(list, packages, j) ==
    IF list = <<>> \/ j.threw THEN j
    ELSE JoinFrom(Tail(list), packages, JoinEntry(Head(list), packages, j))

\* Lines 232-250
JoinResults(list, packages) == JoinFrom(list, packages, Joined(<<>>, <<>>, FALSE))

\* The header line of line 191; each non-ASCII label is written as one token.
CsvHeader == <<"[package-name]", ",", "[version]", ",", "[warning]">>

CsvLine(result) ==
    result.packageName \o <<",">> \o StringOf(result.version) \o <<",">>
        \* the warning mark of line 194, a non-ASCII cross, as one token
        \o (IF result.isLowerOrEqual THEN <<"[cross]">> ELSE <<>>)

\* writeResultsToCSV: the lines written (Null when no file is written), what is
\* printed, and whether it threw.
Written(lines, printed, threw) == [lines |-> lines, console |-> printed, threw |-> threw]

\* The template literal of line 195 throws on a version that has no string
\* conversion, before anything is written.
writeResultsToCSV(found, writable) ==
    IF Len(found) = 0 THEN Written(Null, <<"no-results">>, FALSE)
    ELSE IF \E i \in 1..Len(found) : ~CanConvertToString(found[i].version)
    THEN Written(Null, <<>>, TRUE)
    ELSE IF ~writable THEN Written(Null, <<>>, TRUE)
    ELSE Written(<<CsvHeader>> \o [i \in 1..Len(found) |-> CsvLine(found[i])],
                 <<"written">>, FALSE)

\* The statements of main's try block in program order (lines 225, 229, 235, 253).
MainSequenceProjectFirst ==
    <<"loadProjectPackages", "loadPackageList", "join", "writeResultsToCSV">>

MainSequence ==
    <<"loadPackageList", "loadProjectPackages", "join", "writeResultsToCSV">>

StatementAt(i) == IF i < Len(MainSequence) THEN MainSequence[i + 1] ELSE "done"

\* The statement after statement s, "done" after the last
After(s) == StatementAt(CHOOSE k \in 1..Len(MainSequence) : MainSequence[k] = s)

\* The catch of lines 258-261, after the step printed what is in printed: print
\* the error, process.exit(1)
FailAfter(printed, error) ==
    /\ console' = Append(console \o printed, error)
    /\ exitCode' = 1
    /\ pc' = "done"

Fail(error) == FailAfter(<<>>, error)

\* Lines 206-212: with fewer than two arguments main prints its two usage
\* lines and exits with status 1 before the try block.
MainUsage ==
    /\ pc = StatementAt(0)
    /\ env.args < 2
    /\ console' = console \o <<"usage", "usage-example">>
    /\ exitCode' = 1
    /\ pc' = "done"
    /\ UNCHANGED <<parserVars, cmpVars, env, packageList, projectPackages, results, report,
                   steps, writeLog>>

\* Lines 219-222: the three paths and an empty line
MainHeader == <<"list-path", "project-path", "output-path", "">>

\* Lines 214-226: the header lines, then loadPackageList.  The list file is
\* missing (line 138 throws), or exists and cannot be read (readFileSync of
\* line 141 throws), or is read and parsed; a throw is caught at line 258.
MainLoadPackageList ==
    /\ pc = "loadPackageList"
    /\ env.args >= 2
    /\ IF ~env.listExists
       THEN /\ FailAfter(MainHeader, "error:list-missing")
            /\ UNCHANGED <<packageList, steps>>
       ELSE IF ~env.listReadable
       THEN /\ FailAfter(MainHeader, "error:list-unreadable")
            /\ steps' = Append(steps, "list")
            /\ UNCHANGED packageList
       ELSE /\ packageList' = loadPackageList(env.listText)
            /\ steps' = Append(steps, "list")
            /\ console' = console \o MainHeader \o <<"list-loaded">>
            /\ pc' = After(pc)
            /\ UNCHANGED exitCode
    /\ UNCHANGED <<parserVars, cmpVars, env, projectPackages, results, report, writeLog>>

\* Lines 229-230 with the outcome r of loadProjectPackages
ProjectLoaded(r) ==
    /\ steps' = steps \o r.steps
    /\ IF r.threw
       THEN /\ Fail(IF r.error = "manifest-missing" THEN "error:manifest-missing"
                    ELSE "error:load-failed")
            /\ UNCHANGED <<projectPackages, writeLog>>
       ELSE /\ projectPackages' = r.packages
            /\ writeLog' = r.writes
            /\ console' = console \o r.console \o <<"project-loaded">>
            /\ pc' = After(pc)
            /\ UNCHANGED exitCode

MainLoadProjectPackages ==
    /\ pc = "loadProjectPackages"
    /\ env.args >= 2
    /\ ProjectLoaded(loadProjectPackages(env.project))
    /\ UNCHANGED <<parserVars, cmpVars, env, packageList, results, report>>

\* Lines 232-250 with the outcome j of the loop: a throw of the callback leaves
\* the forEach and is caught at line 258
ResultsJoined(j) ==
    /\ results' = j.results
    /\ IF j.threw
       THEN FailAfter(j.console, "error:join-failed")
       ELSE /\ console' = console \o j.console
            /\ pc' = After(pc)
            /\ UNCHANGED exitCode

MainJoin ==
    /\ pc = "join"
    /\ ResultsJoined(JoinResults(packageList, projectPackages))
    /\ steps' = Append(steps, "join")
    /\ UNCHANGED <<parserVars, cmpVars, env, packageList, projectPackages, report, writeLog>>

\* Lines 253-256 with the outcome w of writeResultsToCSV: after it an empty line
\* and the completion message
ResultsWritten(w) ==
    IF w.threw
    THEN /\ Fail("error:write-failed")
         /\ UNCHANGED <<report, steps>>
    ELSE /\ report' = w.lines
         /\ steps' = IF w.lines = Null THEN steps ELSE Append(steps, "write")
         /\ console' = console \o w.console \o <<"", "complete">>
         /\ pc' = After(pc)
         /\ UNCHANGED exitCode

MainWriteResults ==
    /\ pc = "writeResultsToCSV"
    /\ ResultsWritten(writeResultsToCSV(results, env.outputWritable))
    /\ UNCHANGED <<parserVars, cmpVars, env, packageList, projectPackages, results, writeLog>>

Next ==
    \/ MainUsage
    \/ MainLoadPackageList
    \/ MainLoadProjectPackages
    \/ MainJoin
    \/ MainWriteResults


----------------------------------------------------------------------------
(* Parser specification: every text over ParseAlphabet up to MaxLineLen *)

MaxLineLen == 5

ParseAlphabet == {"@", "p", "/", " ", "\f", "\n"}

\* The variables of main() while a function is checked on its own.
NoRun ==
    /\ env = Null /\ projectPackages = EmptyMap /\ results = <<>> /\ report = Null
    /\ exitCode = 0 /\ console = <<>> /\ steps = <<>> /\ writeLog = <<>>

NoComparison ==
    /\ cmpIn = Null /\ cmpOut = Compared(FALSE, FALSE, FALSE)

NoParse ==
    /\ content = <<>> /\ entry = NullEntry

InitParse ==
    /\ pc = "text"
    /\ content \in StringsUpTo(ParseAlphabet, MaxLineLen)
    /\ entry = NullEntry
    /\ packageList = <<>>
    /\ NoComparison
    /\ NoRun

ParseLine ==
    /\ pc = "text"
    /\ entry' = parsePackageLine(content)
    /\ pc' = "parsed"
    /\ UNCHANGED <<content, packageList, cmpVars, runVars>>

LoadList ==
    /\ pc = "text"
    /\ packageList' = loadPackageList(content)
    /\ pc' = "listed"
    /\ UNCHANGED <<parserVars, cmpVars, runVars>>

NextParse == ParseLine \/ LoadList

SpecParse == InitParse /\ [][NextParse]_vars

----------------------------------------------------------------------------
(* Parser properties *)

CountChar(s, c) == Cardinality({i \in 1..Len(s) : s[i] = c})

Trimmed == Trim(content)

IsScopedLine(t) == t # <<>> /\ t[1] = "@"
IsUnscopedLine(t) == t # <<>> /\ t[1] # "@"

\* The lines of the watch-list text that loadPackageList keeps, by the rule of
\* section 4.1: a line is dropped when it is blank or starts with "@" and does
\* not split into two or three segments.
KeptLineIndexes ==
    LET lines == Split(content, "\n")
    IN  {i \in 1..Len(lines) :
            LET t == Trim(lines[i])
            IN  /\ t # <<>>
                /\ (t[1] = "@" => CountChar(t, "@") \in {1, 2})}

\* C1: parsePackageLine on an unscoped line.  A blank line yields null.  A
\* non-blank line that does not start with "@" yields the whole trimmed line and
\* no version when it holds no "@"; otherwise name and version are the text
\* before and after the LAST "@": name, "@" and version concatenate to the
\* line and the version holds no "@".
C1_UnscopedParse ==
    pc = "parsed" =>
        /\ Trimmed = <<>> => entry = NullEntry
        /\ IsUnscopedLine(Trimmed) /\ CountChar(Trimmed, "@") = 0
              => entry = Entry(Trimmed, Null)
        /\ IsUnscopedLine(Trimmed) /\ CountChar(Trimmed, "@") > 0
              => /\ entry # NullEntry
                 /\ entry.version # Null
                 /\ entry.packageName \o <<"@">> \o entry.version = Trimmed
                 /\ CountChar(entry.version, "@") = 0

\* C1 witness: an unscoped line with two "@" was parsed (the name keeps the first).
C1_Witness ==
    /\ pc = "parsed"
    /\ IsUnscopedLine(Trimmed)
    /\ CountChar(Trimmed, "@") = 2
    /\ entry.version # Null
    /\ CountChar(entry.packageName, "@") = 1

\* C2: parsePackageLine on a scoped line.  With one "@" (two segments) the
\* result is the whole line with no version; with two "@" (three segments) the
\* name is "@" + second segment and the version the third segment; with more
\* the result is null.  loadPackageList keeps exactly the lines that parse, and
\* every kept entry has a non-empty name; a scoped entry's name starts with "@"
\* and is a prefix of its line.
C2_ScopedParse ==
    /\ pc = "parsed" /\ IsScopedLine(Trimmed) =>
        /\ CountChar(Trimmed, "@") = 1 => entry = Entry(Trimmed, Null)
        /\ CountChar(Trimmed, "@") = 2 =>
              /\ entry # NullEntry
              /\ entry.version # Null
              /\ entry.packageName \o <<"@">> \o entry.version = Trimmed
              /\ entry.packageName[1] = "@"
              /\ CountChar(entry.packageName, "@") = 1
              /\ CountChar(entry.version, "@") = 0
        /\ CountChar(Trimmed, "@") > 2 => entry = NullEntry
        /\ entry # NullEntry =>
              /\ entry.packageName # <<>>
              /\ StartsWith(Trimmed, entry.packageName)
    /\ pc = "listed" =>
        /\ Len(packageList) = Cardinality(KeptLineIndexes)
        /\ \A i \in 1..Len(packageList) :
              /\ packageList[i] # NullEntry
              /\ packageList[i].packageName # <<>>

\* C2 witness: a watch-list text with a scoped line of four segments beside a
\* line that parses: the first is dropped, the second kept.
C2_Witness ==
    /\ pc = "listed"
    /\ \E i \in 1..Len(Split(content, "\n")) :
          LET t == Trim(Split(content, "\n")[i])
          IN  IsScopedLine(t) /\ CountChar(t, "@") = 3
    /\ Len(packageList) = 1


----------------------------------------------------------------------------
(* Comparator specification: version strings rendered from known versions *)

MaxMajor == 2

\* A semantic version: the three numbers and the prerelease identifiers
Known(major, minor, patch, prerelease) ==
    [valid |-> TRUE, major |-> major, minor |-> minor, patch |-> patch,
     prerelease |-> prerelease]

\* No version that semver.clean reads
Unknown == [valid |-> FALSE, major |-> 0, minor |-> 0, patch |-> 0, prerelease |-> <<>>]

TwoTo53Plus1 == <<"9", "0", "0", "7", "1", "9", "9", "2", "5", "4", "7", "4", "0", "9", "9", "3">>

CmpPrereleases ==
    {<<>>, <<<<"a">>>>, <<<<"a">>, <<"1">>>>, <<<<"b">>>>, <<<<"2">>>>, <<<<"1", "0">>>>}

CmpVersions ==
    {Known(ma, mi, pa, pre) :
        ma \in 1..MaxMajor, mi \in {0, 9, 10}, pa \in {0, 1, 9}, pre \in CmpPrereleases}

\* Versions whose prerelease is a number that is no double
LargeVersions ==
    {Known(1, 0, 0, <<id>>) : id \in {MAX_SAFE_INTEGER, TwoTo53, TwoTo53Plus1}}

\* The text of a version: what a manifest, a lockfile or a watch-list line spells.
Render(v) ==
    NumberStringOf(v.major) \o <<".">> \o NumberStringOf(v.minor) \o <<".">>
        \o NumberStringOf(v.patch)
        \o (IF v.prerelease = <<>> THEN <<>> ELSE <<"-">> \o Join(v.prerelease, "."))

\* Decorations around the text; clean tells whether semver.clean's rule (trim,
\* then drop leading "=" and "v") removes the decoration.
Decoration(prefix, suffix, clean) == [prefix |-> prefix, suffix |-> suffix, clean |-> clean]

Plain == Decoration(<<>>, <<>>, TRUE)

InstalledDecorations ==
    {Plain,
     Decoration(<<"^">>, <<>>, FALSE),
     Decoration(<<"v">>, <<>>, TRUE),
     Decoration(<<">", "=">>, <<>>, FALSE),
     Decoration(<<" ", "=">>, <<"+", "b">>, TRUE)}

RequiredDecorations ==
    {Plain,
     Decoration(<<"=", "v">>, <<" ">>, TRUE),
     Decoration(<<"~">>, <<>>, FALSE)}

\* An argument: the JavaScript value, and the version it spells (Unknown when it
\* spells none that semver.clean accepts).
Argument(value, version) == [value |-> value, version |-> version]

Decorated(v, d) ==
    Argument(d.prefix \o Render(v) \o d.suffix, IF d.clean THEN v ELSE Unknown)

\* 1.0.0 with a prerelease identifier that makes the text longer than MAX_LENGTH
TooLong == <<"1", ".", "0", ".", "0", "-">> \o [i \in 1..(MAX_LENGTH - 5) |-> "a"]

\* Texts the semver package turns down, and values that are no strings; the last
\* has no string conversion
OtherInstalled ==
    {<<"1", ".", "x">>,
     <<"1", ".", "0", ".", "0", "-", "0", "1">>,
     TooLong,
     TwoTo53 \o <<".", "0", ".", "0">>,
     PlainObject(<<>>),
     Number(<<"1">>),
     Array(<<<<"1", ".", "0", ".", "0">>>>),
     PlainObject(<<Property(ToStringName, Number(<<"1">>))>>)}

InstalledArguments ==
    {Decorated(v, d) : v \in CmpVersions \cup LargeVersions,
                       d \in {Plain, Decoration(<<"^">>, <<>>, FALSE)}}
    \cup {Decorated(v, d) : v \in {w \in CmpVersions : w.prerelease = <<>>},
                            d \in InstalledDecorations}
    \cup {Argument(value, Unknown) : value \in OtherInstalled}

RequiredArguments ==
    {Decorated(v, Plain) :
        v \in {w \in CmpVersions : Len(w.prerelease) <= 1} \cup LargeVersions}
    \cup {Decorated(v, d) : v \in {w \in CmpVersions : w.prerelease = <<>>},
                            d \in RequiredDecorations}
    \cup {Argument(Null, Unknown), Argument(<<>>, Unknown),
          Argument(<<"1", ".", "0">>, Unknown), Argument(TooLong, Unknown)}

InitCmp ==
    /\ pc = "args"
    /\ \E i \in InstalledArguments, r \in RequiredArguments :
          cmpIn = [installed |-> i, required |-> r]
    /\ cmpOut = Compared(FALSE, FALSE, FALSE)
    /\ packageList = <<>>
    /\ NoParse
    /\ NoRun

Compare ==
    /\ pc = "args"
    /\ cmpOut' = isVersionLowerOrEqual(cmpIn.installed.value, cmpIn.required.value)
    /\ pc' = "compared"
    /\ UNCHANGED <<parserVars, packageList, cmpIn, runVars>>

NextCmp == Compare

SpecCmp == InitCmp /\ [][NextCmp]_vars

----------------------------------------------------------------------------
(* Comparator properties *)

\* Precedence of the semantic versioning specification, section 11, stated on
\* the versions the arguments were rendered from: identifiers of digits compare
\* as numbers and come before the others, which compare as text.
IdentifierBefore(a, b) ==
    \/ AllDigits(a) /\ AllDigits(b) /\ CompareDigits(a, b) < 0
    \/ AllDigits(a) /\ ~AllDigits(b)
    \/ /\ ~AllDigits(a) /\ ~AllDigits(b)
       /\ \E k \in 1..Len(b) :
             /\ k <= Len(a) + 1
             /\ SubSeq(a, 1, k - 1) = SubSeq(b, 1, k - 1)
             /\ (k <= Len(a) => CharCode(a[k]) < CharCode(b[k]))

PrereleaseBefore(p, q) ==
    \/ p # <<>> /\ q = <<>>
    \/ /\ p # <<>> /\ q # <<>>
       /\ \E k \in 1..Len(q) :
             /\ k <= Len(p) + 1
             /\ SubSeq(p, 1, k - 1) = SubSeq(q, 1, k - 1)
             /\ (k <= Len(p) => IdentifierBefore(p[k], q[k]))

Precedes(v, w) ==
    \/ v.major < w.major
    \/ v.major = w.major /\ v.minor < w.minor
    \/ v.major = w.major /\ v.minor = w.minor /\ v.patch < w.patch
    \/ /\ v.major = w.major /\ v.minor = w.minor /\ v.patch = w.patch
       /\ PrereleaseBefore(v.prerelease, w.prerelease)

\* C3 (the claim as stated): isVersionLowerOrEqual is false whenever the
\* requested version is absent; when both arguments spell valid semantic versions
\* it is true if and only if the installed version equals or precedes the
\* requested one in semantic-version order (major, minor, patch, then prerelease
\* precedence).
C3_ComparatorMatchesSemverOrder ==
    pc = "compared" =>
        /\ cmpIn.required.value = Null => cmpOut.result = FALSE
        /\ cmpIn.installed.version.valid /\ cmpIn.required.version.valid =>
              (cmpOut.result <=>
                  \/ cmpIn.installed.version = cmpIn.required.version
                  \/ Precedes(cmpIn.installed.version, cmpIn.required.version))

\* C4 (the claim as stated): whenever the requested version is present and one of
\* the two strings does not normalize to a valid semantic version,
\* isVersionLowerOrEqual returns false, raises no error and prints its comparison
\* warning.
C4_FailureIsWarned ==
    pc = "compared" /\ cmpIn.required.value # Null
        /\ ~(cmpIn.installed.version.valid /\ cmpIn.required.version.valid)
      => cmpOut.result = FALSE /\ cmpOut.warned /\ ~cmpOut.threw

----------------------------------------------------------------------------
(* The files of a run *)

\* package.json with its three dependency sections, each a list of
\* [name, value] in key order
Manifest(dependencies, devDependencies, peerDependencies) ==
    File(TRUE, PlainObject(<<Property(DependenciesName, PlainObject(dependencies)),
                             Property(DevDependenciesName, PlainObject(devDependencies)),
                             Property(PeerDependenciesName, PlainObject(peerDependencies))>>))

\* package-lock.json with its two sections, each a list of [key, descriptor] in
\* key order
Lock(dependencies, packages) ==
    File(TRUE, PlainObject(<<Property(DependenciesName, PlainObject(dependencies)),
                             Property(PackagesName, PlainObject(packages))>>))

\* A file that is no JSON text
NoJson == File(FALSE, Null)

\* A lockfile descriptor { version, dependencies } and one without dependencies
Info(version, dependencies) ==
    PlainObject(<<Property(VersionName, version),
                  Property(DependenciesName, PlainObject(dependencies))>>)

Leaf(version) == PlainObject(<<Property(VersionName, version)>>)

Project(manifestExists, manifest, lockExists, lock) ==
    [manifestExists |-> manifestExists, manifest |-> manifest,
     lockExists |-> lockExists, lock |-> lock]

\* The run's surroundings: the number of command-line arguments, whether the
\* watch-list file exists, whether it can be read (a directory cannot) and its
\* text, the project directory, and whether the output file can be written.
Env(args, listExists, listReadable, listText, project, outputWritable) ==
    [args |-> args, listExists |-> listExists, listReadable |-> listReadable,
     listText |-> listText, project |-> project, outputWritable |-> outputWritable]

NameA == <<"a">>
NameB == <<"b">>
NameUpperA == <<"A">>
NameScoped == <<"@", "s", "/", "c">>

V090 == <<"0", ".", "9", ".", "0">>
V100 == <<"1", ".", "0", ".", "0">>
V200 == <<"2", ".", "0", ".", "0">>
V300 == <<"3", ".", "0", ".", "0">>

\* { "toString": 1 }: an object that has no string conversion
NoString == PlainObject(<<Property(ToStringName, Number(<<"1">>))>>)

----------------------------------------------------------------------------
(* Run specification: main() on watch-lists of up to MaxWatch lines *)

MaxWatch == 2

WatchLines ==
    {NameA,
     NameA \o <<"@">> \o V100,
     NameUpperA \o <<"@">> \o V100,
     NameB \o <<"@", "^">> \o V200,
     NameScoped \o <<"@">> \o V200,
     ConstructorName \o <<"@">> \o V100,
     Proto,
     <<"@", "s">> \o <<"@">> \o <<"c">> \o <<"@">> \o V100,
     <<" ">>}

WatchTexts ==
    {Join(lines, "\n") : lines \in UNION {[1..k -> WatchLines] : k \in 0..MaxWatch}}

\* Manifests of strings
PlainManifests ==
    {Manifest(<<Property(NameA, <<"^">> \o V100), Property(NameB, <<>>)>>,
              <<>>, <<Property(NameScoped, V200)>>),
     Manifest(<<Property(NameA, V100)>>, <<Property(NameA, V090)>>, <<>>)}

\* Manifests with the key __proto__ and with values that are no strings
OtherManifests ==
    {Manifest(<<Property(Proto, V100), Property(NameA, V100)>>, <<>>, <<>>),
     Manifest(<<Property(NameA, V100)>>, <<Property(Proto, Null)>>, <<>>),
     Manifest(<<Property(NameA, NoString), Property(NameB, Number(<<"2">>))>>, <<>>, <<>>),
     Manifest(<<Property(Proto, PlainObject(<<Property(NameA, V100), Property(Proto, V090)>>))>>,
              <<Property(Proto, V200)>>, <<>>),
     Manifest(<<Property(Proto, Array(<<V300>>)), Property(NameB, V100)>>, <<>>, <<>>),
     File(TRUE, Null)}

RunLocks ==
    {Lock(<<Property(NameA, Info(V100, <<Property(NameB, Leaf(<<"~">> \o V200))>>))>>,
          <<>>),
     Lock(<<>>,
          <<Property(<<>>, Leaf(V100)),
            Property(NodeModules \o NameScoped, Leaf(V300)),
            Property(NodeModules \o NameA \o SlashNodeModules \o NameB, Leaf(V090))>>),
     Lock(<<Property(NameB, Null)>>,
          <<Property(NodeModules \o NameA, Leaf(V200))>>)}

RunProjects ==
    {Project(FALSE, NoJson, FALSE, NoJson),
     Project(FALSE, NoJson, TRUE, Lock(<<Property(NameA, Leaf(V100))>>, <<>>)),
     Project(TRUE, NoJson, FALSE, NoJson)}
    \cup {Project(TRUE, m, FALSE, NoJson) : m \in PlainManifests \cup OtherManifests}
    \cup {Project(TRUE, m, TRUE, l) : m \in PlainManifests, l \in RunLocks \cup {NoJson}}
    \cup {Project(TRUE, m, TRUE, Lock(<<Property(NameB, Leaf(V300))>>, <<>>)) :
             m \in OtherManifests}

InitRun ==
    /\ packageList = <<>>
    /\ NoParse
    /\ NoComparison
    /\ projectPackages = EmptyMap
    /\ results = <<>>
    /\ report = Null
    /\ exitCode = 0
    /\ console = <<>>
    /\ steps = <<>>
    /\ writeLog = <<>>

Init ==
    /\ InitRun
    /\ pc = MainSequence[1]
    /\ \E project \in RunProjects, outputWritable \in BOOLEAN :
          \/ \E args \in 0..3 : env = Env(args, FALSE, FALSE, <<>>, project, outputWritable)
          \/ \E args \in 2..3 : env = Env(args, TRUE, FALSE, <<>>, project, outputWritable)
          \/ \E args \in 2..3, text \in WatchTexts :
                env = Env(args, TRUE, TRUE, text, project, outputWritable)

Spec == Init /\ [][Next]_vars

----------------------------------------------------------------------------
(* Run properties *)

Last(q) == q[Len(q)]

InResolvedMap(e) == e.packageName \in DOMAIN projectPackages.own

\* The watch entries whose name is a key of the ResolvedPackageMap, in order
KeyedEntries == SelectSeq(packageList, InResolvedMap)

\* C5 (the claim as stated): once the join has run, results holds exactly one
\* record for each watch entry whose packageName is a key of the
\* ResolvedPackageMap, in watch-list order, with the map's version and the
\* verdict of isVersionLowerOrEqual; an entry whose name is no key gives no record.
C5_JoinByKey ==
    "join" \in Range(steps) =>
        results = [i \in 1..Len(KeyedEntries) |->
                      Match(KeyedEntries[i].packageName,
                            projectPackages.own[KeyedEntries[i].packageName],
                            KeyedEntries[i].version,
                            isVersionLowerOrEqual(
                                projectPackages.own[KeyedEntries[i].packageName],
                                KeyedEntries[i].version).result)]

\* The value the join finds for a watch entry has no string conversion, which
\* makes the template literal of line 175 or of line 248 throw.
Unprintable(e) ==
    /\ Truthy(Get(projectPackages, e.packageName))
    /\ ~CanConvertToString(Get(projectPackages, e.packageName))

\* What makes a run fatal: the watch-list or the manifest is missing, the
\* watch-list cannot be read, the manifest cannot be processed (unreadable, no
\* JSON text, or the text null), the join meets a value it cannot print, or the
\* report cannot be written.
FatalCondition ==
    \/ ~env.listExists
    \/ ~env.listReadable
    \/ ~env.project.manifestExists
    \/ ~env.project.manifest.valid
    \/ env.project.manifest.value = Null
    \/ \E i \in 1..Len(packageList) : Unprintable(packageList[i])
    \/ results # <<>> /\ ~env.outputWritable

ErrorMessages ==
    {"error:list-missing", "error:list-unreadable", "error:manifest-missing",
     "error:load-failed",
     "error:join-failed", "error:write-failed"}

\* C7: a finished run that was given at least two arguments has exited
\* non-zero, with an error message printed last, exactly when the watch-list
\* file or the manifest is missing or another processing error escaped (a
\* watch-list that cannot be read, a manifest that cannot be processed, a value
\* that cannot be printed, a failed write); a missing or malformed lockfile is
\* not fatal, and a run with no match exits zero and writes no report.
C7_ExitStatus ==
    pc = "done" /\ env.args >= 2 =>
        /\ exitCode # 0 <=> FatalCondition
        /\ exitCode # 0 => Last(console) \in ErrorMessages
        /\ exitCode = 0 => Range(console) \cap ErrorMessages = {}
        /\ exitCode = 0 /\ results = <<>> => report = Null
        /\ exitCode = 0 /\ results # <<>> => report # Null /\ Len(report) = Len(results) + 1

\* C7 witness: a run with watch entries, a manifest and no lockfile matched
\* nothing: it ended with status zero and no report.
C7_Witness ==
    /\ pc = "done"
    /\ packageList # <<>>
    /\ env.project.manifestExists /\ ~env.project.lockExists
    /\ results = <<>>
    /\ exitCode = 0
    /\ report = Null

Rank(order, step) == CHOOSE k \in 1..Len(order) : order[k] = step

\* The steps performed so far follow the given order, none twice.
FollowsOrder(order) ==
    \A i, j \in 1..Len(steps) : i < j => Rank(order, steps[i]) < Rank(order, steps[j])

\* C10 (the claim as stated): the steps run in the order manifest read, lockfile
\* read, watch-list read, join, report write, and with both the watch-list and
\* the manifest missing the failure reported is the manifest's.
C10_ManifestReadFirst ==
    /\ FollowsOrder(<<"manifest", "lock", "list", "join", "write">>)
    /\ pc = "done" /\ env.args >= 2 /\ ~env.listExists /\ ~env.project.manifestExists
          => Last(console) = "error:manifest-missing"

\* C10 (amended): the steps run strictly in the order watch-list read, manifest
\* read, lockfile read (if the lockfile exists), join, report write; no step
\* runs unless the earlier ones have, a fatal error ends the run at its step,
\* and with both files missing the failure reported is the watch-list's.
C10_StepOrder ==
    /\ FollowsOrder(<<"list", "manifest", "lock", "join", "write">>)
    /\ "manifest" \in Range(steps) => "list" \in Range(steps)
    /\ "lock" \in Range(steps) => "manifest" \in Range(steps) /\ env.project.lockExists
    /\ "join" \in Range(steps) =>
          /\ "manifest" \in Range(steps)
          /\ env.project.lockExists => "lock" \in Range(steps)
    /\ "write" \in Range(steps) => "join" \in Range(steps)
    /\ pc = "done" /\ exitCode # 0 =>
          /\ Last(console) = "error:list-missing" => steps = <<>>
          /\ Last(console) = "error:list-unreadable" => steps = <<"list">>
          /\ Last(console) = "error:manifest-missing" => steps = <<"list">>
          /\ Last(console) = "error:load-failed" => steps = <<"list", "manifest">>
          /\ Last(console) = "error:join-failed" => Last(steps) = "join"
          /\ Last(console) = "error:write-failed" => Last(steps) = "join"
    /\ pc = "done" /\ env.args >= 2 /\ ~env.listExists /\ ~env.project.manifestExists
          => Last(console) = "error:list-missing" /\ steps = <<>>

\* C10 witness: a run that performed all five steps in order.
C10_Witness ==
    /\ pc = "done"
    /\ steps = <<"list", "manifest", "lock", "join", "write">>

----------------------------------------------------------------------------
(* Loader specification: loadProjectPackages on lockfiles with Schema A trees *)
(* of up to MaxNodes entries and Schema B lists of up to MaxPaths entries     *)

MaxNodes == 3
MaxPaths == 2

LockNames == {NameA, NameB}

\* The version of a Schema A descriptor: exact, with a range operator
TreeVersions == {V100, <<"^">> \o V200}

TopNames(forest) == {forest[i].name : i \in 1..Len(forest)}

\* The descriptors with k entries in all, itself counted, over the dependencies
\* objects of k - 1 entries.  A null descriptor has no children.
InfosOver(k, forests) ==
    (IF k = 1 THEN {Null} ELSE {})
        \cup {Info(v, f) : v \in TreeVersions, f \in forests}

\* The dependencies objects with exactly n entries in all, nested ones counted;
\* the keys of one object are distinct.
ForestsOfSize[n \in 0..(MaxNodes + 1)] ==
    IF n = 0 THEN {<<>>}
    ELSE UNION {UNION {{<<Property(name, info)>> \o rest :
                            rest \in {f \in ForestsOfSize[n - k] : name \notin TopNames(f)}} :
                       name \in LockNames, info \in InfosOver(k, ForestsOfSize[k - 1])} :
                k \in 1..n}

Forests == UNION {ForestsOfSize[n] : n \in 0..MaxNodes}

ScopeWithMarker == <<"@", "x", "_", "n", "o", "d", "e", "_", "m", "o", "d", "u", "l", "e", "s">>

LockPaths ==
    {<<>>,
     NodeModules \o NameA,
     NodeModules \o NameA \o SlashNodeModules \o NameB,
     NodeModules \o ScopeWithMarker \o <<"/", "c">>}

\* Descriptors of the packages section; the last two are a version that is no
\* string, and null
PathInfos == {Leaf(V100), Leaf(<<"~">> \o V200), Leaf(PlainObject(<<>>)), Null}

IsOneToOne(q) == \A i, j \in 1..Len(q) : q[i] = q[j] => i = j

\* The packages objects of up to MaxPaths entries with distinct paths
PathLists ==
    UNION {{[i \in 1..k |-> Property(paths[i], infos[i])] :
               paths \in {q \in [1..k -> LockPaths] : IsOneToOne(q)},
               infos \in [1..k -> PathInfos]} :
           k \in 0..MaxPaths}

\* Packages objects with a path that holds the marker without starting with it,
\* a descriptor without a version, and a descriptor that is a string
OtherPathLists ==
    {<<Property(NameA \o SlashNodeModules \o NameB, Leaf(V100)),
       Property(NodeModules \o NameB, Leaf(<<"~">> \o V200))>>,
     <<Property(NodeModules \o NameA, Leaf(Null)),
       Property(NodeModules \o NameB, Leaf(V100))>>,
     <<Property(NodeModules \o NameA, V100),
       Property(NodeModules \o NameB, Leaf(V100))>>}

LoadManifests ==
    {Manifest(<<>>, <<>>, <<>>),
     Manifest(<<Property(NameA, <<"^">> \o V300), Property(NameB, V300)>>,
              <<Property(NameB, <<">", "=">> \o V090)>>,
              <<Property(NameA, V090)>>)}

\* Trees with descriptors that have no version
NoVersionForests ==
    {<<Property(NameA, Leaf(Null)), Property(NameB, Leaf(V100))>>,
     <<Property(NameA, Info(Null, <<Property(NameB, Leaf(V100))>>)),
       Property(NameB, Leaf(<<"^">> \o V200))>>,
     <<Property(NameA, Info(V100, <<Property(NameA, Leaf(Null))>>))>>,
     <<Property(NameB, Info(<<>>, <<Property(NameA, Null)>>))>>}

\* Lockfiles with every Schema A tree and no packages section
TreeProjects ==
    {Project(TRUE, m, TRUE, Lock(a, <<>>)) :
        m \in LoadManifests, a \in Forests \cup NoVersionForests}

\* Lockfiles with every packages section after a tree that is absent, well
\* formed, or throws
PathProjects ==
    {Project(TRUE, m, TRUE, Lock(a, b)) :
        m \in LoadManifests,
        a \in {<<>>,
               <<Property(NameA, Leaf(<<"^">> \o V200))>>,
               <<Property(NameA, Leaf(V100)), Property(NameB, Null)>>},
        b \in PathLists \cup OtherPathLists}

\* Manifests that assign to __proto__: a string, null, a number, an object
\* without and with a key __proto__, an array
ProtoManifests ==
    {Manifest(<<>>, <<>>, <<>>),
     Manifest(<<Property(Proto, V300), Property(NameB, V300)>>, <<>>, <<>>),
     Manifest(<<Property(Proto, V300)>>, <<Property(Proto, Null)>>,
              <<Property(Proto, V090)>>),
     Manifest(<<Property(Proto, Number(<<"1">>))>>, <<>>, <<>>),
     Manifest(<<Property(Proto, PlainObject(<<Property(NameA, V100)>>))>>,
              <<Property(Proto, PlainObject(<<Property(Proto, V090)>>))>>, <<>>),
     Manifest(<<Property(Proto, PlainObject(<<Property(Proto, V090)>>))>>,
              <<Property(Proto, Null)>>, <<>>),
     Manifest(<<Property(Proto, Array(<<V100>>))>>, <<Property(NameA, V100)>>, <<>>)}

\* Manifests and lockfiles with the name __proto__
ProtoProjects ==
    {Project(TRUE, m, TRUE, Lock(a, b)) :
        m \in ProtoManifests,
        a \in {<<>>,
               <<Property(Proto, Leaf(V100)), Property(NameB, Leaf(V200))>>,
               <<Property(NameB, Info(V100, <<Property(Proto, Leaf(<<"^">> \o V200))>>))>>},
        b \in {<<>>,
               <<Property(NodeModules \o Proto, Leaf(V100)),
                 Property(NodeModules \o NameB, Leaf(V200))>>}}

\* JSON texts that are no object, and sections that are no object: a string and
\* an array have their indices as keys, a number has none
OtherFiles ==
    {File(TRUE, Null),
     File(TRUE, V100),
     File(TRUE, PlainObject(<<Property(DependenciesName, <<"a", "b">>),
                              Property(PackagesName, Array(<<Leaf(V100)>>))>>)),
     File(TRUE, PlainObject(<<Property(DependenciesName, Array(<<Leaf(V100), V200>>)),
                              Property(PackagesName, Number(<<"1">>))>>)),
     File(TRUE, PlainObject(<<Property(DependenciesName, Boolean(TRUE)),
                              Property(DevDependenciesName,
                                       PlainObject(<<Property(NameA, Boolean(FALSE))>>))>>))}

OtherProjects ==
    {Project(TRUE, m, TRUE, l) :
        m \in OtherFiles \cup LoadManifests, l \in OtherFiles \cup {NoJson}}
    \cup {Project(TRUE, m, FALSE, NoJson) : m \in LoadManifests}

InitLoad ==
    /\ InitRun
    /\ pc = "loadProjectPackages"
    /\ \/ \E project \in TreeProjects : env = Env(2, TRUE, TRUE, <<>>, project, TRUE)
       \/ \E project \in PathProjects : env = Env(2, TRUE, TRUE, <<>>, project, TRUE)
       \/ \E project \in ProtoProjects : env = Env(2, TRUE, TRUE, <<>>, project, TRUE)
       \/ \E project \in OtherProjects : env = Env(2, TRUE, TRUE, <<>>, project, TRUE)

NextLoad == MainLoadProjectPackages

SpecLoad == InitLoad /\ [][NextLoad]_vars

----------------------------------------------------------------------------
(* Loader properties *)

TheLock == env.project.lock

\* The lockfile exists and is a JSON text other than null
LockParsed == env.project.lockExists /\ TheLock.valid /\ TheLock.value # Null

\* loadProjectPackages has returned.
LoadReturned == pc = "join"

\* The dependencies section of the lockfile, and the entries of its packages
\* section in order
TreeSection == IF LockParsed THEN Field(TheLock.value, DependenciesName) ELSE Null

PathEntries ==
    IF LockParsed /\ Truthy(Field(TheLock.value, PackagesName))
    THEN Entries(Field(TheLock.value, PackagesName))
    ELSE <<>>

VersionOf(info) == IF info = Null THEN Null ELSE Field(info, VersionName)

\* A descriptor whose handling throws: null, or a truthy version that is no string
Malformed(info) == info = Null \/ (Truthy(VersionOf(info)) /\ ~IsString(VersionOf(info)))

HasVersion(info) == Truthy(VersionOf(info)) /\ IsString(VersionOf(info))

\* The entries of a Schema A object depth-first: an entry, then its nested
\* dependencies, then its next sibling.
RECURSIVE Preorder(_)
RECURSIVE PreorderOf(_)
PreorderOf(entries) ==
    IF entries = <<>> THEN <<>>
    ELSE <<Head(entries)>>
            \o (IF Head(entries).value = Null THEN <<>>
                ELSE Preorder(Field(Head(entries).value, DependenciesName)))
            \o PreorderOf(Tail(entries))

Preorder(dependencies) ==
    IF Truthy(dependencies) THEN PreorderOf(Entries(dependencies)) ELSE <<>>

TreeVisits == Preorder(TreeSection)

FirstMalformed(q) == {i \in 1..Len(q) : Malformed(q[i].value)}

TreeThrows == FirstMalformed(TreeVisits) # {}

\* A version without its leading range-operator characters
Stripped(version) ==
    IF \A i \in 1..Len(version) : version[i] \in {"^", "~", ">", "=", "<"} THEN <<>>
    ELSE SubSeq(version,
                Min({i \in 1..Len(version) : version[i] \notin {"^", "~", ">", "=", "<"}}),
                Len(version))

EntryHasVersion(e) == HasVersion(e.value)

\* The value recorded for a descriptor that has a version
RecordedVersion(info) == IF HasVersion(info) THEN Stripped(VersionOf(info)) ELSE Null

TreeWriteOf(e) == Write(e.name, RecordedVersion(e.value))

WritesOfTree(q) ==
    [i \in 1..Len(SelectSeq(q, EntryHasVersion)) |->
        TreeWriteOf(SelectSeq(q, EntryHasVersion)[i])]

\* The assignments Object.assign makes for one section of the manifest
SectionAssignments(depType) ==
    IF Truthy(Field(env.project.manifest.value, depType))
    THEN Entries(Field(env.project.manifest.value, depType))
    ELSE <<>>

\* The assignments of lines 85-90, in order
ManifestAssignments ==
    IF env.project.manifest.value = Null THEN <<>>
    ELSE SectionAssignments(DependenciesName) \o SectionAssignments(DevDependenciesName)
            \o SectionAssignments(PeerDependenciesName)

\* The k-th smallest element of a set of numbers
RECURSIVE Nth(_, _)
Nth(S, k) == IF k = 1 THEN Min(S) ELSE Nth(S \ {Min(S)}, k - 1)

Remainder(path) ==
    IF StartsWith(path, NodeModules) THEN SubSeq(path, Len(NodeModules) + 1, Len(path))
    ELSE path

\* A path directly under the project's node_modules: it starts with
\* "node_modules/" and no "/node_modules/" follows.
TopLevelPath(path) ==
    /\ StartsWith(path, NodeModules)
    /\ \A i \in 1..(Len(Remainder(path)) - Len(SlashNodeModules) + 1) :
          SubSeq(Remainder(path), i, i + Len(SlashNodeModules) - 1) # SlashNodeModules

PathThrows(e) ==
    /\ StartsWith(e.name, NodeModules)
    /\ \/ e.value = Null
       \/ TopLevelPath(e.name) /\ Malformed(e.value)

PathAccepted(e) == TopLevelPath(e.name) /\ HasVersion(e.value)

\* The loop over packageLock.packages reaches entry i.
PathReached(i) ==
    /\ LockParsed
    /\ ~TreeThrows
    /\ \A j \in 1..(i - 1) : ~PathThrows(PathEntries[j])

PathWriteOf(e) == Write(Remainder(e.name), RecordedVersion(e.value))

\* The entries of the packages section whose assignment is executed
PathsAssigned == {i \in 1..Len(PathEntries) : PathReached(i) /\ PathAccepted(PathEntries[i])}

PathAssignments ==
    [k \in 1..Cardinality(PathsAssigned) |-> PathWriteOf(PathEntries[Nth(PathsAssigned, k)])]

\* The map in which every name has the value of its last assignment
LastWins(log) ==
    [name \in {log[i].name : i \in 1..Len(log)} |->
        log[Max({i \in 1..Len(log) : log[i].name = name})].value]

CountOccurrences(s, p) ==
    Cardinality({i \in 1..(Len(s) - Len(p) + 1) : SubSeq(s, i, i + Len(p) - 1) = p})

LockWellFormed ==
    /\ LockParsed
    /\ ~TreeThrows
    /\ \A i \in 1..Len(PathEntries) : ~Malformed(PathEntries[i].value)


\* Some entry of the packages section throws.
PathsThrow == \E i \in 1..Len(PathEntries) : PathThrows(PathEntries[i])

\* C6 (the claim as stated): when one of the two sections of an existing, parsed
\* lockfile throws, loadProjectPackages warns and returns, the manifest's names
\* are in the map, and the entries of the other, well-formed section are in
\* the map too.
C6_OtherSectionStillLoaded ==
    pc # "loadProjectPackages" /\ LockParsed /\ env.project.manifest.value # Null =>
        /\ TreeThrows \/ PathsThrow =>
              /\ exitCode = 0
              /\ "lock-warning" \in Range(console)
              /\ \A i \in 1..Len(ManifestAssignments) :
                    ManifestAssignments[i].name \in DOMAIN projectPackages.own
        /\ TreeThrows /\ ~PathsThrow =>
              \A i \in 1..Len(PathEntries) :
                  PathAccepted(PathEntries[i]) =>
                      /\ Remainder(PathEntries[i].name) \in DOMAIN projectPackages.own
                      /\ projectPackages.own[Remainder(PathEntries[i].name)]
                            = RecordedVersion(PathEntries[i].value)
        /\ PathsThrow /\ ~TreeThrows =>
              \A i \in 1..Len(TreeVisits) :
                  HasVersion(TreeVisits[i].value) =>
                      TreeVisits[i].name \in DOMAIN projectPackages.own

\* C8 (the claim as stated, its "recorded" half): once loadProjectPackages has
\* returned, every entry of the packages section whose path holds exactly one
\* occurrence of "node_modules/", at its start, and which carries a version is
\* recorded: the map holds the path after the prefix as a key, with the entry's
\* version without its leading range-operator characters.
C8_TopLevelEntryRecorded ==
    LoadReturned =>
        \A i \in 1..Len(PathEntries) :
            /\ CountOccurrences(PathEntries[i].name, NodeModules) = 1
            /\ StartsWith(PathEntries[i].name, NodeModules)
            /\ HasVersion(PathEntries[i].value)
            => /\ Remainder(PathEntries[i].name) \in DOMAIN projectPackages.own
               /\ projectPackages.own[Remainder(PathEntries[i].name)]
                     = RecordedVersion(PathEntries[i].value)

\* C9 (the claim as stated), on lockfiles whose entries are all well formed:
\* every name that has a version anywhere in the nested Schema A tree is in the
\* map, and the map gives every name the value of its last assignment in the
\* order manifest, then the tree depth-first (an entry's version, then its
\* nested dependencies, then the next sibling), then the packages section.
C9_EveryVersionedNameWins ==
    LoadReturned /\ LockWellFormed =>
        /\ \A i \in 1..Len(TreeVisits) :
              HasVersion(TreeVisits[i].value) =>
                  TreeVisits[i].name \in DOMAIN projectPackages.own
        /\ projectPackages.own
              = LastWins(ManifestAssignments \o WritesOfTree(TreeVisits) \o PathAssignments)

====
